---- MODULE Spec2Model ----
(***************************************************************************)
(* Model of src/Compiler.py: the PyASMCompiler tree visitor (both class    *)
(* definitions of the file), its compile()/optimize() entry points and the *)
(* module-level write-listing / assemble / cleanup script.                 *)
(*                                                                         *)
(* Listing lines are the very strings the code appends to assembly_code.   *)
(* Syntax-tree nodes are records with a "kind" field naming the ast class  *)
(* and the node-holding fields of that class, named as in ast.             *)
(***************************************************************************)
EXTENDS Integers, Sequences, FiniteSets, TLC

VARIABLES
  classDef,          \* which class definition the instance comes from: 1 = lines 8-148, 2 = lines 204-359
  python_code,       \* the parsed input (ast.Module) handed to compile()
  assembly_code,     \* self.assembly_code
  origin,            \* history: origin[i] is the tree path of the node whose visitor appended assembly_code[i]
  variables,         \* keys of self.variables
  current_function,  \* self.current_function ("None" for None)
  global_variables,  \* self.global_variables
  local_variables,   \* self.local_variables
  assembly,          \* the script's variable assembly (compile()'s return value), "None" while unset
  files,             \* files of the working directory the script creates and removes
  pc,                \* position of the script
  exc,               \* the uncaught exception that ended the script, "None" if none
  optimized,         \* number of optimize() calls made so far
  refs               \* number of direct visit_Name calls made on the instance after compile()

vars == <<classDef, python_code, assembly_code, origin, variables, current_function,
          global_variables, local_variables, assembly, files, pc, exc, optimized, refs>>

-----------------------------------------------------------------------------
(* Bounds of the model *)

\* most top-level functions in a statement-level input program
MaxFuncs == 2
\* most statements in a statement-level input program (all functions together)
MaxStmts == 2
\* most BinOp nodes in the expression of an expression-level input program
MaxBinOps == 2
\* most optimize() calls after compile()
MaxOptimize == 2
\* most direct visit_Name calls in the name-resolution specification
MaxRefs == 2

-----------------------------------------------------------------------------
(* Syntax tree nodes (what ast.parse produces): a record per node, "kind" *)
(* the ast class name and the other fields named as in ast.  A field that *)
(* holds None is NoValue; operator and context nodes, which no visitor     *)
(* reads and which have no child nodes, are strings or left out.          *)
(* Constant values are non-negative integers.                             *)

Constant(n) == [kind |-> "Constant", n |-> n]
Name(id) == [kind |-> "Name", id |-> id]
Attribute(v, attr) == [kind |-> "Attribute", value |-> v, attr |-> attr]
BinOp(op, l, r) == [kind |-> "BinOp", op |-> op, left |-> l, right |-> r]
Compare(op, l, r) == [kind |-> "Compare", left |-> l, ops |-> <<op>>, comparators |-> <<r>>]
Call(f, a) == [kind |-> "Call", func |-> Name(f), args |-> <<a>>, keywords |-> <<>>]
List(elts) == [kind |-> "List", elts |-> elts]
Dict(keys, values) == [kind |-> "Dict", keys |-> keys, values |-> values]
NoValue == [kind |-> "NoneType"]
Assign(ts, v) == [kind |-> "Assign", targets |-> ts, value |-> v]
AugAssign(t, op, v) == [kind |-> "AugAssign", target |-> t, op |-> op, value |-> v]
Return(v) == [kind |-> "Return", value |-> v]
Expr(v) == [kind |-> "Expr", value |-> v]
If(t, b, e) == [kind |-> "If", test |-> t, body |-> b, orelse |-> e]
While(t, b, e) == [kind |-> "While", test |-> t, body |-> b, orelse |-> e]
Arg(a, ann) == [kind |-> "arg", arg |-> a, annotation |-> ann]
Arguments(as, ds) ==
  [kind |-> "arguments", posonlyargs |-> <<>>, args |-> as, vararg |-> NoValue,
   kwonlyargs |-> <<>>, kw_defaults |-> <<>>, kwarg |-> NoValue, defaults |-> ds]
FunctionDef(name, args, body, decos, returns) ==
  [kind |-> "FunctionDef", name |-> name, args |-> args, body |-> body,
   decorator_list |-> decos, returns |-> returns]
Module(body) == [kind |-> "Module", body |-> body]

\* ast._fields of a node class, the fields that can hold child nodes, in
\* order: "node" a node or None, "list" a list of nodes (or None entries).
\* Every class of the ast module with such a field is listed; the operator
\* and context fields (op, ops, ctx) hold nodes without fields of their own,
\* for which no visitor exists, and are left out
Fields(kind) ==
  CASE kind = "Module" -> << <<"body", "list">>, <<"type_ignores", "list">> >>
    [] kind = "Interactive" -> << <<"body", "list">> >>
    [] kind = "Expression" -> << <<"body", "node">> >>
    [] kind = "FunctionType" -> << <<"argtypes", "list">>, <<"returns", "node">> >>
    [] kind \in {"FunctionDef", "AsyncFunctionDef"} ->
         << <<"args", "node">>, <<"body", "list">>, <<"decorator_list", "list">>, <<"returns", "node">> >>
    [] kind = "ClassDef" ->
         << <<"bases", "list">>, <<"keywords", "list">>, <<"body", "list">>, <<"decorator_list", "list">> >>
    [] kind = "arguments" ->
         << <<"posonlyargs", "list">>, <<"args", "list">>, <<"vararg", "node">>,
            <<"kwonlyargs", "list">>, <<"kw_defaults", "list">>, <<"kwarg", "node">>,
            <<"defaults", "list">> >>
    [] kind = "arg" -> << <<"annotation", "node">> >>
    [] kind = "Lambda" -> << <<"args", "node">>, <<"body", "node">> >>
    [] kind \in {"Return", "Expr", "Await", "keyword", "Attribute", "Starred", "MatchValue",
                 "Yield", "YieldFrom"} ->
         << <<"value", "node">> >>
    [] kind = "Delete" -> << <<"targets", "list">> >>
    [] kind = "Assign" -> << <<"targets", "list">>, <<"value", "node">> >>
    [] kind \in {"AugAssign", "NamedExpr"} -> << <<"target", "node">>, <<"value", "node">> >>
    [] kind = "AnnAssign" ->
         << <<"target", "node">>, <<"annotation", "node">>, <<"value", "node">> >>
    [] kind \in {"For", "AsyncFor"} ->
         << <<"target", "node">>, <<"iter", "node">>, <<"body", "list">>, <<"orelse", "list">> >>
    [] kind \in {"While", "If"} ->
         << <<"test", "node">>, <<"body", "list">>, <<"orelse", "list">> >>
    [] kind \in {"With", "AsyncWith"} -> << <<"items", "list">>, <<"body", "list">> >>
    [] kind = "withitem" -> << <<"context_expr", "node">>, <<"optional_vars", "node">> >>
    [] kind = "Match" -> << <<"subject", "node">>, <<"cases", "list">> >>
    [] kind = "match_case" -> << <<"pattern", "node">>, <<"guard", "node">>, <<"body", "list">> >>
    [] kind = "Raise" -> << <<"exc", "node">>, <<"cause", "node">> >>
    [] kind \in {"Try", "TryStar"} ->
         << <<"body", "list">>, <<"handlers", "list">>, <<"orelse", "list">>, <<"finalbody", "list">> >>
    [] kind = "ExceptHandler" -> << <<"type", "node">>, <<"body", "list">> >>
    [] kind = "Assert" -> << <<"test", "node">>, <<"msg", "node">> >>
    [] kind \in {"Import", "ImportFrom"} -> << <<"names", "list">> >>
    [] kind \in {"BoolOp", "JoinedStr"} -> << <<"values", "list">> >>
    [] kind = "BinOp" -> << <<"left", "node">>, <<"right", "node">> >>
    [] kind = "UnaryOp" -> << <<"operand", "node">> >>
    [] kind = "IfExp" -> << <<"test", "node">>, <<"body", "node">>, <<"orelse", "node">> >>
    [] kind = "Dict" -> << <<"keys", "list">>, <<"values", "list">> >>
    [] kind \in {"Set", "List", "Tuple"} -> << <<"elts", "list">> >>
    [] kind \in {"ListComp", "GeneratorExp", "SetComp"} ->
         << <<"elt", "node">>, <<"generators", "list">> >>
    [] kind = "DictComp" -> << <<"key", "node">>, <<"value", "node">>, <<"generators", "list">> >>
    [] kind = "comprehension" -> << <<"target", "node">>, <<"iter", "node">>, <<"ifs", "list">> >>
    [] kind = "Compare" -> << <<"left", "node">>, <<"comparators", "list">> >>
    [] kind = "Call" -> << <<"func", "node">>, <<"args", "list">>, <<"keywords", "list">> >>
    [] kind = "FormattedValue" -> << <<"value", "node">>, <<"format_spec", "node">> >>
    [] kind = "Subscript" -> << <<"value", "node">>, <<"slice", "node">> >>
    [] kind = "Slice" -> << <<"lower", "node">>, <<"upper", "node">>, <<"step", "node">> >>
    [] kind \in {"MatchSequence", "MatchOr"} -> << <<"patterns", "list">> >>
    [] kind = "MatchMapping" -> << <<"keys", "list">>, <<"patterns", "list">> >>
    [] kind = "MatchClass" ->
         << <<"cls", "node">>, <<"patterns", "list">>, <<"kwd_patterns", "list">> >>
    [] kind = "MatchAs" -> << <<"pattern", "node">> >>
    [] OTHER -> <<>>

IsNode(n) == n.kind # "NoneType"

\* the child nodes one field contributes (a record without the field is
\* read as the field being empty)
FieldKids(node, fd) ==
  IF fd[1] \notin DOMAIN node THEN <<>>
  ELSE IF fd[2] = "list" THEN SelectSeq(node[fd[1]], IsNode)
  ELSE IF IsNode(node[fd[1]]) THEN <<node[fd[1]]>>
  ELSE <<>>

RECURSIVE KidsOfFields(_, _, _)
KidsOfFields(node, fds, i) ==
  IF i > Len(fds) THEN <<>>
  ELSE FieldKids(node, fds[i]) \o KidsOfFields(node, fds, i + 1)

\* the child nodes ast.NodeVisitor.generic_visit walks (ast.iter_fields,
\* then every AST value and every AST item of a list value), in order
Children(node) == KidsOfFields(node, Fields(node.kind), 1)

-----------------------------------------------------------------------------
(* The visitor.  A lowering state st holds the instance attributes plus exc, *)
(* the exception in flight ("None" if none): once exc is set nothing more   *)
(* is appended or assigned, as the exception unwinds every visitor frame.   *)

Emit(st, line, path) ==
  IF st.exc # "None" THEN st
  ELSE [st EXCEPT !.code = Append(@, line), !.org = Append(@, path)]

EmitAll(st, lines, path) ==
  IF st.exc # "None" THEN st
  ELSE [st EXCEPT !.code = @ \o lines, !.org = @ \o [i \in 1..Len(lines) |-> path]]

RECURSIVE visit(_, _, _)
RECURSIVE visit_list(_, _, _, _)

\* the for loops of ast.NodeVisitor.generic_visit over a node's child nodes
visit_list(nodes, i, path, st) ==
  IF i > Len(nodes) \/ st.exc # "None" THEN st
  ELSE visit_list(nodes, i + 1, path, visit(nodes[i], Append(path, i), st))

generic_visit(node, path, st) == visit_list(Children(node), 1, path, st)

\* generic_visit called on a Python list (node.body, node.orelse):
\* ast.iter_fields reads list._fields and raises AttributeError
generic_visit_of_list(st) ==
  IF st.exc # "None" THEN st ELSE [st EXCEPT !.exc = "AttributeError"]

\* visit called on None (a ** entry among a Dict's keys): generic_visit reads
\* None._fields and raises AttributeError
visit_of_None(st) ==
  IF st.exc # "None" THEN st ELSE [st EXCEPT !.exc = "AttributeError"]

RECURSIVE IdOf(_)
\* id(node): a number that differs between the nodes of one tree; the model
\* writes it as the node's tree path
IdOf(path) ==
  IF path = <<>> THEN "0"
  ELSE IF Len(path) = 1 THEN ToString(path[1])
  ELSE ToString(path[1]) \o "_" \o IdOf(Tail(path))

\* ---- class definition 2 (lines 204-359) ----

\* mutant of visit_FunctionDef: the local set is not reset on entry
visit_FunctionDef_keep(node, path, st) ==
  LET s1 == EmitAll(st, <<"global " \o node.name, node.name \o ":",
                          "    push rbp", "    mov rbp, rsp">>, path)
      s2 == [s1 EXCEPT !.cur = node.name]
      s3 == generic_visit(node, path, s2)
      s4 == EmitAll(s3, <<"    pop rbp", "    ret">>, path)
  IN IF s3.exc # "None" THEN s3 ELSE [s4 EXCEPT !.cur = "None"]

visit_FunctionDef(node, path, st) ==
  LET s1 == EmitAll(st, <<"global " \o node.name, node.name \o ":",
                          "    push rbp", "    mov rbp, rsp">>, path)
      s2 == [s1 EXCEPT !.cur = node.name, !.locals = {}]
      s3 == generic_visit(node, path, s2)
      s4 == EmitAll(s3, <<"    pop rbp", "    ret">>, path)
  IN IF s3.exc # "None" THEN s3 ELSE [s4 EXCEPT !.cur = "None"]

RECURSIVE assign_targets(_, _, _, _)
\* the for loop of visit_Assign: the value is lowered once per Name target
assign_targets(node, i, path, st) ==
  IF i > Len(node.targets) \/ st.exc # "None" THEN st
  ELSE LET target == node.targets[i]
           s1 == [st EXCEPT !.locals = @ \cup {target.id}]
           s2 == CASE node.value.kind = "Constant" ->
                        Emit(s1, "    mov " \o target.id \o ", " \o ToString(node.value.n), path)
                    [] node.value.kind = "Name" ->
                        Emit(s1, "    mov " \o target.id \o ", " \o node.value.id, path)
                    [] node.value.kind = "BinOp" ->
                        Emit(visit(node.value, Append(path, 1), s1),
                             "    mov " \o target.id \o ", rax", path)
                    [] OTHER -> s1
       IN assign_targets(node, i + 1, path,
                         IF target.kind = "Name" THEN s2 ELSE st)

visit_Assign(node, path, st) == assign_targets(node, 1, path, st)

\* mutant of visit_Name: the global set is consulted before the local set
visit_Name_globals_first(node, path, st) ==
  IF node.id \in {"True", "False", "None"}
    THEN Emit(st, "    ; Built-in " \o node.id, path)
  ELSE IF node.id \in st.globals
    THEN Emit(st, "    ; Global variable " \o node.id, path)
  ELSE IF node.id \in st.locals
    THEN Emit(st, "    ; Local variable " \o node.id, path)
  ELSE Emit([st EXCEPT !.globals = @ \cup {node.id}],
            "    ; Unknown variable " \o node.id \o " (adding to globals)", path)

visit_Name(node, path, st) ==
  IF node.id \in {"True", "False", "None"}
    THEN Emit(st, "    ; Built-in " \o node.id, path)
  ELSE IF node.id \in st.locals
    THEN Emit(st, "    ; Local variable " \o node.id, path)
  ELSE IF node.id \in st.globals
    THEN Emit(st, "    ; Global variable " \o node.id, path)
  ELSE Emit([st EXCEPT !.globals = @ \cup {node.id}],
            "    ; Unknown variable " \o node.id \o " (adding to globals)", path)

\* the same code in both class definitions (lines 45-53 and 264-272)
visit_Return(node, path, st) ==
  LET s1 == CASE node.value.kind = "BinOp" -> visit(node.value, Append(path, 1), st)
              [] node.value.kind = "Constant" ->
                   Emit(st, "    mov rax, " \o ToString(node.value.n), path)
              [] node.value.kind = "Name" ->
                   Emit(st, "    mov rax, " \o node.value.id, path)
              [] OTHER -> st
  IN Emit(s1, "    ret", path)

\* the instruction lines of an operator applied to the scratch register reg
OpLines(op, reg) ==
  CASE op = "Add" -> <<"    add rax, " \o reg>>
    [] op = "Sub" -> <<"    sub rax, " \o reg>>
    [] op = "Mult" -> <<"    imul rax, " \o reg>>
    [] op = "Div" -> <<"    cqo", "    idiv " \o reg>>
    [] op = "Mod" -> <<"    cqo", "    idiv " \o reg, "    mov rax, rdx">>
    [] OTHER -> <<>>

\* mutant of visit_BinOp: the right operand is lowered before the left one
visit_BinOp_swapped(node, path, st) ==
  LET s1 == visit(node.right, Append(path, 2), st)
      s2 == Emit(s1, "    mov rbx, rax", path)
      s3 == visit(node.left, Append(path, 1), s2)
  IN EmitAll(s3, OpLines(node.op, "rbx"), path)

visit_BinOp(node, path, st) ==
  LET s1 == visit(node.left, Append(path, 1), st)
      s2 == Emit(s1, "    mov rbx, rax", path)
      s3 == visit(node.right, Append(path, 2), s2)
  IN EmitAll(s3, OpLines(node.op, "rbx"), path)

\* the same code in both class definitions (lines 71-81 and 295-305)
visit_If(node, path, st) ==
  LET s1 == Emit(st, "    ; If condition", path)
      s2 == visit(node.test, Append(path, 1), s1)
      s3 == Emit(s2, "    jz else_block", path)
      s4 == generic_visit_of_list(s3)
      s5 == Emit(s4, "else_block:", path)
      s6 == IF node.orelse # <<>>
              THEN generic_visit_of_list(Emit(s5, "    ; Else condition", path))
              ELSE s5
  IN s6

\* the same code in both class definitions (lines 83-91 and 307-315)
visit_While(node, path, st) ==
  LET loop_label == "loop_" \o IdOf(path)
      s1 == Emit(st, loop_label \o ":", path)
      s2 == visit(node.test, Append(path, 1), s1)
      s3 == Emit(s2, "    jz end_" \o loop_label, path)
      s4 == generic_visit_of_list(s3)
      s5 == Emit(s4, "    jmp " \o loop_label, path)
  IN Emit(s5, "end_" \o loop_label \o ":", path)

\* the same code in both class definitions (lines 113-117 and 317-322)
visit_List(node, path, st) ==
  visit_list(node.elts, 1, path, Emit(st, "    ; Creating list", path))

RECURSIVE visit_pairs(_, _, _, _)
\* for key, value in zip(node.keys, node.values): visit key, then value
visit_pairs(node, i, path, st) ==
  IF i > Len(node.keys) \/ i > Len(node.values) \/ st.exc # "None" THEN st
  ELSE visit_pairs(node, i + 1, path,
                   visit(node.values[i], Append(path, 2 * i),
                         visit(node.keys[i], Append(path, 2 * i - 1), st)))

\* the same code in both class definitions (lines 120-126 and 324-330)
visit_Dict(node, path, st) ==
  visit_pairs(node, 1, path, Emit(st, "    ; Creating dictionary", path))

\* the same code in both class definitions (lines 128-131 and 332-334)
visit_Attribute(node, path, st) ==
  Emit(st, "    ; Handling attribute " \o node.attr, path)

\* ---- class definition 1 (lines 8-148), where it differs ----

visit_FunctionDef_1(node, path, st) ==
  LET s1 == EmitAll(st, <<"global " \o node.name, node.name \o ":",
                          "    push rbp", "    mov rbp, rsp">>, path)
      s2 == [s1 EXCEPT !.cur = node.name]
      s3 == generic_visit(node, path, s2)
      s4 == EmitAll(s3, <<"    pop rbp", "    ret">>, path)
  IN IF s3.exc # "None" THEN s3 ELSE [s4 EXCEPT !.cur = "None"]

\* the lines after the loop read target.id of the last target (the loop
\* variable): AttributeError when that target is not a Name
visit_Assign_1(node, path, st) ==
  LET s1 == [st EXCEPT !.vars = @ \cup {node.targets[i].id : i \in
                                  {j \in 1..Len(node.targets) : node.targets[j].kind = "Name"}}]
      target == node.targets[Len(node.targets)]
      s2 == IF node.value.kind = "BinOp" THEN visit(node.value, Append(path, 1), s1) ELSE s1
  IN IF node.value.kind \notin {"Constant", "Name", "BinOp"} THEN s1
     ELSE IF s2.exc # "None" THEN s2
     ELSE IF target.kind # "Name" THEN [s2 EXCEPT !.exc = "AttributeError"]
     ELSE CASE node.value.kind = "Constant" ->
                 Emit(s2, "    mov " \o target.id \o ", " \o ToString(node.value.n), path)
            [] node.value.kind = "Name" ->
                 Emit(s2, "    mov " \o target.id \o ", " \o node.value.id, path)
            [] node.value.kind = "BinOp" ->
                 Emit(s2, "    mov " \o target.id \o ", rax", path)

visit_Name_1(node, path, st) == Emit(st, "    ; Variable " \o node.id, path)

visit_BinOp_1(node, path, st) == EmitAll(st, OpLines(node.op, "rcx"), path)

visit_Compare_1(node, path, st) ==
  LET s1 == CASE node.ops[1] = "Gt" -> EmitAll(st, <<"    cmp rax, rcx", "    jg comparison_true">>, path)
              [] node.ops[1] = "Lt" -> EmitAll(st, <<"    cmp rax, rcx", "    jl comparison_true">>, path)
              [] node.ops[1] = "Eq" -> EmitAll(st, <<"    cmp rax, rcx", "    je comparison_true">>, path)
              [] OTHER -> st
  IN EmitAll(s1, <<"    jmp comparison_false", "comparison_true:", "    mov rax, 1",
                   "    jmp end_comparison", "comparison_false:", "    mov rax, 0",
                   "end_comparison:">>, path)

\* ---- ast.NodeVisitor.visit: dispatch on the node's class name ----

visit(node, path, st) ==
  IF st.exc # "None" THEN st
  ELSE CASE node.kind = "FunctionDef" ->
              IF classDef = 1 THEN visit_FunctionDef_1(node, path, st)
                              ELSE visit_FunctionDef(node, path, st)
         [] node.kind = "Assign" ->
              IF classDef = 1 THEN visit_Assign_1(node, path, st)
                              ELSE visit_Assign(node, path, st)
         [] node.kind = "Name" ->
              IF classDef = 1 THEN visit_Name_1(node, path, st)
                              ELSE visit_Name(node, path, st)
         [] node.kind = "BinOp" ->
              IF classDef = 1 THEN visit_BinOp_1(node, path, st)
                              ELSE visit_BinOp(node, path, st)
         [] node.kind = "Compare" ->
              IF classDef = 1 THEN visit_Compare_1(node, path, st)
                              ELSE generic_visit(node, path, st)
         [] node.kind = "Return" -> visit_Return(node, path, st)
         [] node.kind = "If" -> visit_If(node, path, st)
         [] node.kind = "While" -> visit_While(node, path, st)
         [] node.kind = "List" -> visit_List(node, path, st)
         [] node.kind = "Dict" -> visit_Dict(node, path, st)
         [] node.kind = "Attribute" -> visit_Attribute(node, path, st)
         [] node.kind = "NoneType" -> visit_of_None(st)
         [] OTHER -> generic_visit(node, path, st)

-----------------------------------------------------------------------------
(* Inputs: the programs handed to compile() *)

FuncNames == <<"f", "g", "h", "k">>

\* the statement shapes of the statement-level programs
Stmts ==
  { Assign(<<Name("x")>>, Constant(1)),
    Assign(<<Name("y")>>, Name("x")),
    Assign(<<Name("x")>>, BinOp("Add", Name("x"), Constant(1))),
    Return(BinOp("Mod", Name("x"), Name("y"))),
    Return(Constant(1)),
    Return(BinOp("Div", Name("y"), Constant(2))),
    Return(Call("g", Name("x"))),
    AugAssign(Name("x"), "Add", Constant(1)),
    If(Compare("Lt", Name("x"), Name("y")), <<Return(Constant(1))>>, <<Return(Constant(2))>>),
    Expr(Compare("Gt", Name("x"), Name("y"))),
    While(Compare("Lt", Name("x"), Name("y")), <<Assign(<<Name("x")>>, Constant(1))>>, <<>>),
    Expr(List(<<Name("x"), Constant(1)>>)),
    Expr(Dict(<<Name("x")>>, <<Attribute(Name("y"), "z")>>)),
    Assign(<<Attribute(Name("x"), "z")>>, Constant(1)) }

\* the function headers: the first function is def f():, the second is
\* @d def g(a: t = y) -> t:, further ones are plain again
Header(i, body) ==
  IF i = 2
    THEN FunctionDef(FuncNames[i], Arguments(<<Arg("a", Name("t"))>>, <<Name("y")>>), body,
                     <<Name("d")>>, Name("t"))
    ELSE FunctionDef(FuncNames[i], Arguments(<<>>, <<>>), body, <<>>, NoValue)

RECURSIVE BodySeqs(_, _)
\* the sequences of k function bodies, each of at least one statement, with
\* at most budget statements together
BodySeqs(k, budget) ==
  IF k = 0 THEN {<<>>}
  ELSE UNION { { <<b>> \o rest : b \in [1..l -> Stmts], rest \in BodySeqs(k - 1, budget - l) }
               : l \in 1..(budget - (k - 1)) }

StmtPrograms ==
  UNION { { Module([i \in 1..k |-> Header(i, bs[i])]) : bs \in BodySeqs(k, MaxStmts) }
          : k \in 1..MaxFuncs }

Atoms == {Constant(2), Name("x")}
ArithOps == {"Add", "Sub", "Mult"}

RECURSIVE ExprsWith(_)
\* the expressions over Atoms with exactly n BinOp nodes
ExprsWith(n) ==
  IF n = 0 THEN Atoms
  ELSE UNION { { BinOp(op, l, r) : op \in ArithOps, l \in ExprsWith(i), r \in ExprsWith(n - 1 - i) }
               : i \in 0..(n - 1) }

Exprs == UNION { ExprsWith(n) : n \in 1..MaxBinOps }

ExprPrograms == { Module(<<Header(1, <<Return(e)>>)>>) : e \in Exprs }

Programs == StmtPrograms \cup ExprPrograms

-----------------------------------------------------------------------------
(* compile() and optimize() *)

RECURSIVE JoinLines(_)
\* "\n".join(lines)
JoinLines(lines) ==
  IF Len(lines) = 0 THEN ""
  ELSE IF Len(lines) = 1 THEN lines[1]
  ELSE lines[1] \o "\n" \o JoinLines(Tail(lines))

\* the instance attributes as a lowering state, and back
Attrs ==
  [code |-> assembly_code, org |-> origin, locals |-> local_variables,
   globals |-> global_variables, vars |-> variables, cur |-> current_function,
   exc |-> "None"]

SetAttrs(st) ==
  /\ assembly_code' = st.code
  /\ origin' = st.org
  /\ local_variables' = st.locals
  /\ global_variables' = st.globals
  /\ variables' = st.vars
  /\ current_function' = st.cur

\* mutant of apply_vcal: a pass that drops the last instruction
apply_vcal_drop(code) == SubSeq(code, 1, Len(code) - 1)

apply_vcal(code) == code

apply_lpit(code) == code

optimize(code) == apply_lpit(apply_vcal(code))

-----------------------------------------------------------------------------
(* The script: construct, compile, write the listing, assemble, clean up *)

Init ==
  /\ classDef \in {1, 2}
  /\ python_code \in Programs
  /\ assembly_code = <<"section .text">>
  /\ origin = << <<>> >>
  /\ variables = {}
  /\ current_function = "None"
  /\ global_variables = {}
  /\ local_variables = {}
  /\ assembly = "None"
  /\ files = {}
  /\ pc = "start"
  /\ exc = "None"
  /\ optimized = 0
  /\ refs = 0

\* assembly = compiler.compile(python_code); an exception ends the script
Compile ==
  /\ pc = "start"
  /\ \E st \in {visit(python_code, <<>>, Attrs)} :
        /\ SetAttrs(st)
        /\ IF st.exc = "None"
             THEN /\ assembly' = JoinLines(st.code)
                  /\ pc' = "compiled"
                  /\ exc' = exc
             ELSE /\ assembly' = assembly
                  /\ pc' = "raised"
                  /\ exc' = st.exc
  /\ UNCHANGED <<classDef, python_code, files, optimized, refs>>

\* compiler.optimize(), any time after compile() has returned
Optimize ==
  /\ pc = "compiled"
  /\ optimized < MaxOptimize
  /\ assembly_code' = optimize(assembly_code)
  /\ optimized' = optimized + 1
  /\ UNCHANGED <<classDef, python_code, origin, variables, current_function,
                 global_variables, local_variables, assembly, files, pc, exc, refs>>

\* with open("output.asm", "w") as f: f.write(assembly)
WriteListing ==
  /\ pc = "compiled"
  /\ files' = files \cup {"output.asm"}
  /\ pc' = "written"
  /\ UNCHANGED <<classDef, python_code, assembly_code, origin, variables, current_function,
                 global_variables, local_variables, assembly, exc, optimized, refs>>

\* assemble_and_link(): subprocess.run without check=True.  nasm exits 0 and
\* leaves output.bin, or exits non-zero leaving no binary (the exit status is
\* not looked at), or cannot be started and subprocess.run raises.
AssembleOk ==
  /\ pc = "written"
  /\ files' = files \cup {"output.bin"}
  /\ pc' = "assembled"
  /\ UNCHANGED <<classDef, python_code, assembly_code, origin, variables, current_function,
                 global_variables, local_variables, assembly, exc, optimized, refs>>

AssembleFails ==
  /\ pc = "written"
  /\ pc' = "assembled"
  /\ UNCHANGED <<classDef, python_code, assembly_code, origin, variables, current_function,
                 global_variables, local_variables, assembly, files, exc, optimized, refs>>

AssemblerMissing ==
  /\ pc = "written"
  /\ pc' = "raised"
  /\ exc' = "FileNotFoundError"
  /\ UNCHANGED <<classDef, python_code, assembly_code, origin, variables, current_function,
                 global_variables, local_variables, assembly, files, optimized, refs>>

\* os.remove(name): raises FileNotFoundError when the file is not there
Remove(name, next) ==
  /\ IF name \in files
       THEN /\ files' = files \ {name}
            /\ pc' = next
            /\ exc' = exc
       ELSE /\ files' = files
            /\ pc' = "raised"
            /\ exc' = "FileNotFoundError"
  /\ UNCHANGED <<classDef, python_code, assembly_code, origin, variables, current_function,
                 global_variables, local_variables, assembly, optimized, refs>>

RemoveListing ==
  /\ pc = "assembled"
  /\ Remove("output.asm", "listing_removed")

RemoveBinary ==
  /\ pc = "listing_removed"
  /\ Remove("output.bin", "exit")

Next ==
  \/ Compile
  \/ Optimize
  \/ WriteListing
  \/ AssembleOk
  \/ AssembleFails
  \/ AssemblerMissing
  \/ RemoveListing
  \/ RemoveBinary

Spec == Init /\ [][Next]_vars

-----------------------------------------------------------------------------
(* Name resolution exercised directly: after compile() has returned, the     *)
(* caller hands Name nodes to the instance (compiler.visit(ast.Name(id))).   *)
(* ast.parse never yields a Name for True, False or None, so the built-in    *)
(* branch of visit_Name is reached only this way.                            *)

RefIds == {"True", "False", "None", "x", "y"}

\* the programs of one function
NamePrograms ==
  { Module(<<Header(1, bs[1])>>) : bs \in BodySeqs(1, MaxStmts) }

InitName ==
  /\ classDef = 2
  /\ python_code \in NamePrograms
  /\ \E st \in {visit(python_code, <<>>,
                      [code |-> <<"section .text">>, org |-> << <<>> >>, locals |-> {},
                       globals |-> {}, vars |-> {}, cur |-> "None", exc |-> "None"])} :
        /\ st.exc = "None"
        /\ assembly_code = st.code
        /\ origin = st.org
        /\ local_variables = st.locals
        /\ global_variables = st.globals
        /\ variables = st.vars
        /\ current_function = st.cur
        /\ assembly = JoinLines(st.code)
  /\ files = {}
  /\ pc = "compiled"
  /\ exc = "None"
  /\ optimized = 0
  /\ refs = 0

VisitNameCall ==
  \E id \in RefIds :
    /\ pc = "compiled"
    /\ refs < MaxRefs
    /\ \E st \in {visit(Name(id), <<>>, Attrs)} :
          /\ SetAttrs(st)
          /\ exc' = st.exc
    /\ refs' = refs + 1
    /\ UNCHANGED <<classDef, python_code, assembly, files, pc, optimized>>

NextName == VisitNameCall

SpecName == InitName /\ [][NextName]_vars

-----------------------------------------------------------------------------
(* Reading the listing and the input *)

\* every label name the visitor can define
LabelNames ==
  {FuncNames[i] : i \in DOMAIN FuncNames}
    \cup {"else_block", "comparison_true", "comparison_false", "end_comparison"}
    \cup UNION { {"loop_" \o IdOf(origin[i]), "end_loop_" \o IdOf(origin[i])} : i \in DOMAIN origin }

IsLabelDef(line) == \E n \in LabelNames : line = n \o ":"

IsPrefix(p, q) == Len(p) <= Len(q) /\ SubSeq(q, 1, Len(p)) = p

\* the child nodes as the visitors number them in tree paths
Kids(node) ==
  CASE node.kind \in {"Return", "Assign"} -> <<node.value>>
    [] node.kind \in {"If", "While"} -> <<node.test>>
    [] node.kind = "List" -> node.elts
    [] node.kind = "Dict" ->
         [i \in 1..(2 * Len(node.keys)) |->
            IF i % 2 = 1 THEN node.keys[(i + 1) \div 2] ELSE node.values[i \div 2]]
    [] node.kind = "Attribute" -> <<>>
    [] OTHER -> Children(node)

RECURSIVE NodeAt(_, _)
NodeAt(node, path) ==
  IF path = <<>> THEN node
  ELSE IF Head(path) \in DOMAIN Kids(node) THEN NodeAt(Kids(node)[Head(path)], Tail(path))
  ELSE NoValue

\* compile() has returned a listing
Returned == assembly # "None"

\* the top-level statements of the input's functions
TopStmts ==
  UNION { {b[s] : s \in DOMAIN b} : b \in {python_code.body[f].body : f \in DOMAIN python_code.body} }

\* every node below a node, the branches of an If or While included
AllKids(node) ==
  IF node.kind \in {"If", "While"} THEN <<node.test>> \o node.body \o node.orelse ELSE Kids(node)

RECURSIVE CountNodes(_, _)
RECURSIVE CountSeq(_, _)
\* the number of nodes of the given kinds in a tree
CountNodes(node, kinds) ==
  (IF node.kind \in kinds THEN 1 ELSE 0) + CountSeq(AllKids(node), kinds)

CountSeq(nodes, kinds) ==
  IF nodes = <<>> THEN 0 ELSE CountNodes(Head(nodes), kinds) + CountSeq(Tail(nodes), kinds)

\* the names the top-level Assign statements 1..s of function f bind
AssignedUpTo(f, s) ==
  { python_code.body[f].body[k].targets[t].id : <<k, t>> \in
      { kt \in (1..s) \X (1..2) :
          /\ kt[1] \in DOMAIN python_code.body[f].body
          /\ python_code.body[f].body[kt[1]].kind = "Assign"
          /\ kt[2] \in DOMAIN python_code.body[f].body[kt[1]].targets
          /\ python_code.body[f].body[kt[1]].targets[kt[2]].kind = "Name" } }

Prefixes(q) == { SubSeq(q, 1, n) : n \in 0..Len(q) }

\* the paths of the BinOp nodes that have been lowered
LoweredBinOps ==
  { p \in UNION { Prefixes(origin[i]) : i \in DOMAIN origin } :
      NodeAt(python_code, p).kind = "BinOp" }

\* the listing positions of the lines emitted for the subtree at path p
Under(p) == { i \in DOMAIN origin : IsPrefix(p, origin[i]) }

-----------------------------------------------------------------------------
(* A register machine for the emitted arithmetic: rax accumulator, rbx and   *)
(* rcx scratch.  Execution starts at the top of the listing and stops at the *)
(* first ret; directives, labels, comments and the frame instructions leave  *)
(* rax alone.  Values stay far below 2^63 at the model's bounds.             *)

Env == [v \in {"x", "y"} |-> IF v = "x" THEN 5 ELSE 7]
ImmVals == 0..9
RegVals == {0, 1}

Step(line, regs) ==
  IF \E n \in ImmVals : line = "    mov rax, " \o ToString(n)
    THEN [regs EXCEPT !.rax = CHOOSE n \in ImmVals : line = "    mov rax, " \o ToString(n)]
  ELSE IF \E v \in DOMAIN Env : line = "    mov rax, " \o v
    THEN [regs EXCEPT !.rax = Env[CHOOSE v \in DOMAIN Env : line = "    mov rax, " \o v]]
  ELSE IF line = "    mov rbx, rax" THEN [regs EXCEPT !.rbx = regs.rax]
  ELSE IF line = "    add rax, rbx" THEN [regs EXCEPT !.rax = regs.rax + regs.rbx]
  ELSE IF line = "    sub rax, rbx" THEN [regs EXCEPT !.rax = regs.rax - regs.rbx]
  ELSE IF line = "    imul rax, rbx" THEN [regs EXCEPT !.rax = regs.rax * regs.rbx]
  ELSE IF line = "    add rax, rcx" THEN [regs EXCEPT !.rax = regs.rax + regs.rcx]
  ELSE IF line = "    sub rax, rcx" THEN [regs EXCEPT !.rax = regs.rax - regs.rcx]
  ELSE IF line = "    imul rax, rcx" THEN [regs EXCEPT !.rax = regs.rax * regs.rcx]
  ELSE regs

RECURSIVE Run(_, _, _)
Run(lines, i, regs) ==
  IF i > Len(lines) \/ lines[i] = "    ret" THEN regs.rax
  ELSE Run(lines, i + 1, Step(lines[i], regs))

RECURSIVE Eval(_)
\* the value of an expression, operands in source order
Eval(e) ==
  CASE e.kind = "Constant" -> e.n
    [] e.kind = "Name" -> Env[e.id]
    [] e.kind = "BinOp" /\ e.op = "Add" -> Eval(e.left) + Eval(e.right)
    [] e.kind = "BinOp" /\ e.op = "Sub" -> Eval(e.left) - Eval(e.right)
    [] e.kind = "BinOp" /\ e.op = "Mult" -> Eval(e.left) * Eval(e.right)

-----------------------------------------------------------------------------
(* The claims *)

\* C1: in a program with two or more If or Compare constructs every label
\* definition line of the listing is textually distinct, and no two
\* conditional branches of If statements go to the same else label.
C1_LabelsDistinct ==
  CountNodes(python_code, {"If", "Compare"}) >= 2 =>
    \A i, j \in DOMAIN assembly_code :
      i < j =>
        /\ ~(IsLabelDef(assembly_code[i]) /\ assembly_code[i] = assembly_code[j])
        /\ ~(\E n \in LabelNames : /\ assembly_code[i] = "    jz " \o n
                                    /\ assembly_code[j] = "    jz " \o n)

\* C2: with the scope-tracking class, a name reference inside a function (its
\* header, child 1 of the function, or statement s of its body, child s + 1) is
\* classified Local only if the name has been assigned in that same function
\* (a name assigned only in another function is Global there and is in the
\* global set), and after compile() the local set holds exactly the names
\* the last function assigned: every function started with an empty set.
C2_ScopeIsolation ==
  (classDef = 2 /\ pc # "start") =>
    /\ \A i \in DOMAIN assembly_code : \A x \in {"x", "y", "g", "d", "t"} :
         LET line == assembly_code[i]
             isRef == line \in {"    ; Local variable " \o x, "    ; Global variable " \o x,
                                "    ; Unknown variable " \o x \o " (adding to globals)"}
         IN (isRef /\ Len(origin[i]) >= 2 /\ x \notin AssignedUpTo(origin[i][1], origin[i][2] - 1)) =>
              /\ line # "    ; Local variable " \o x
              /\ x \in global_variables
    /\ (Returned /\ refs = 0) =>
         local_variables = AssignedUpTo(Len(python_code.body),
                                        Len(python_code.body[Len(python_code.body)].body))

\* C2 witness: x is assigned in the first function only and referenced in the
\* second, where it is resolved as a global.
C2_Witness ==
  /\ classDef = 2
  /\ Returned
  /\ Len(python_code.body) >= 2
  /\ "x" \in AssignedUpTo(1, Len(python_code.body[1].body))
  /\ "x" \notin AssignedUpTo(2, Len(python_code.body[2].body))
  /\ \E i \in DOMAIN assembly_code :
       /\ Len(origin[i]) >= 2
       /\ origin[i][1] = 2
       /\ origin[i][2] >= 2
       /\ assembly_code[i] = "    ; Unknown variable x (adding to globals)"

\* C3: a direct name reference appends exactly one line and raises nothing;
\* the line is the built-in one for True/False/None, else the local one if
\* the name is in the local set, else the global one if it is in the global
\* set, else the auto-promotion one; the global set gains the name in that
\* last case only and the local set never changes.
C3_NameClassification ==
  [][ refs' = refs + 1 =>
        /\ exc' = "None"
        /\ local_variables' = local_variables
        /\ Len(assembly_code') = Len(assembly_code) + 1
        /\ SubSeq(assembly_code', 1, Len(assembly_code)) = assembly_code
        /\ \E id \in RefIds :
             LET line == assembly_code'[Len(assembly_code')]
             IN IF id \in {"True", "False", "None"}
                  THEN /\ line = "    ; Built-in " \o id
                       /\ global_variables' = global_variables
                ELSE IF id \in local_variables
                  THEN /\ line = "    ; Local variable " \o id
                       /\ global_variables' = global_variables
                ELSE IF id \in global_variables
                  THEN /\ line = "    ; Global variable " \o id
                       /\ global_variables' = global_variables
                ELSE /\ line = "    ; Unknown variable " \o id \o " (adding to globals)"
                     /\ global_variables' = global_variables \cup {id}
    ]_vars

\* C3 witness: references have been made, the last one to a name that is in
\* both the local and the global set and was resolved as local.
C3_Witness ==
  /\ refs = MaxRefs
  /\ "x" \in local_variables
  /\ "x" \in global_variables
  /\ "y" \in global_variables
  /\ assembly_code[Len(assembly_code)] = "    ; Local variable x"

\* C4: for every lowered BinOp the lines of the left operand come first,
\* then the one move to the scratch register, then the lines of the right
\* operand, then the operator's instructions.
C4_LeftBeforeRight ==
  classDef = 2 =>
    \A p \in LoweredBinOps :
      LET own == { i \in DOMAIN origin : origin[i] = p }
          mv == { i \in own : assembly_code[i] = "    mov rbx, rax" }
          ops == own \ mv
          L == Under(Append(p, 1))
          R == Under(Append(p, 2))
      IN /\ Cardinality(mv) = 1
         /\ Cardinality(ops) = Len(OpLines(NodeAt(python_code, p).op, "rbx"))
         /\ \A l \in L : \A m \in mv : l < m
         /\ \A m \in mv : \A r \in R : m < r
         /\ \A r \in R : \A o \in ops : r < o
         /\ \A m \in mv : \A o \in ops : m < o
         /\ \A l \in L : \A r \in R : l < r

\* C4 witness: a lowered BinOp whose right operand is itself a BinOp and
\* whose left operand emitted lines.
C4_Witness ==
  /\ classDef = 2
  /\ Returned
  /\ \E p \in LoweredBinOps :
       /\ NodeAt(python_code, Append(p, 2)).kind = "BinOp"
       /\ Under(Append(p, 1)) # {}
       /\ Under(Append(p, 2)) # {}

\* C5: an optimize() call leaves the instruction list, and the rest of the
\* instance, exactly as it was.
C5_OptimizeIdentity ==
  [][ optimized' = optimized + 1 =>
        /\ assembly_code' = assembly_code
        /\ UNCHANGED <<local_variables, global_variables, variables, current_function>>
    ]_vars

\* C5 witness: optimize() has been called more than once on a compiled unit.
C5_Witness ==
  /\ optimized >= 2
  /\ Returned
  /\ Len(assembly_code) > 1
  /\ JoinLines(assembly_code) = assembly

\* C6: when the input has a statement without a lowering rule (an augmented
\* assignment, a call, a return or assignment of something other than a
\* constant, a name or a binary operation), compile() ends in an error and
\* returns no listing.
C6_UnsupportedAborts ==
  (classDef = 2 /\ pc # "start" /\ \E s \in TopStmts :
       \/ s.kind = "AugAssign"
       \/ s.kind = "Expr" /\ s.value.kind = "Call"
       \/ s.kind \in {"Return", "Assign"} /\ s.value.kind \notin {"Constant", "Name", "BinOp"})
    => (~Returned /\ exc # "None")

\* C7: once the write / assemble / cleanup pipeline has ended, neither
\* output.asm nor output.bin is left and the cleanup did not fail.
C7_ArtifactsRemoved ==
  (pc = "exit" \/ (pc = "raised" /\ exc = "FileNotFoundError")) =>
    (files = {} /\ exc = "None")

\* C8: for a function returning an expression over constants, names and
\* Add/Sub/Mult, running the listing leaves the expression's value in rax
\* whatever the registers held before, and the listing has one
\* load-immediate per Constant operand.
C8_ExprValue ==
  (classDef = 2 /\ Returned /\ python_code \in ExprPrograms) =>
    LET e == python_code.body[1].body[1].value
    IN /\ \A a, b, c \in RegVals :
            Run(assembly_code, 1, [rax |-> a, rbx |-> b, rcx |-> c]) = Eval(e)
       /\ Cardinality({ i \in DOMAIN assembly_code :
                          \E n \in ImmVals : assembly_code[i] = "    mov rax, " \o ToString(n) })
            = CountNodes(e, {"Constant"})

\* C9: once compile() has ended, every If has its lines in the order
\* condition, branch-if-zero to the else label, then-branch, jump to the end
\* label, else label, else-branch, end label.
C9_IfLayout ==
  (classDef = 2 /\ pc # "start") =>
    \A i \in DOMAIN assembly_code :
      assembly_code[i] = "    ; If condition" =>
        \E j, k, l, m \in DOMAIN assembly_code : \E e, d \in LabelNames :
          /\ i < j /\ j < k /\ k < l /\ l < m
          /\ assembly_code[j] = "    jz " \o e
          /\ assembly_code[k] = "    jmp " \o d
          /\ assembly_code[l] = e \o ":"
          /\ assembly_code[m] = d \o ":"

\* C10: in a returned listing every function label is followed at once by
\* the prologue and every ret is immediately preceded by pop rbp.
C10_FrameBalanced ==
  (classDef = 2 /\ Returned) =>
    \A i \in DOMAIN assembly_code :
      /\ assembly_code[i] = "    ret" =>
           (i > 1 /\ assembly_code[i - 1] = "    pop rbp")
      /\ (\E f \in DOMAIN FuncNames : assembly_code[i] = FuncNames[f] \o ":") =>
           /\ i + 2 <= Len(assembly_code)
           /\ assembly_code[i + 1] = "    push rbp"
           /\ assembly_code[i + 2] = "    mov rbp, rsp"

====
